---- MODULE Spec2Model ----
(***************************************************************************)
(* Model of the TikTok/Twitter scraper scripts of dataria_scraper:         *)
(*   - the comment collection loops of src/scrapers/tiktok_scraper.py      *)
(*     (get_video_comments, get_all_video_comments_paginated and the       *)
(*     dispatcher get_video_comments_smart),                               *)
(*   - the video search loops (search_hashtag_videos, search_user_videos,  *)
(*     search_trending_videos) with apply_video_filters,                   *)
(*   - argument validation (src/core/cli_utils.py) and the two main()      *)
(*     functions as far as prompts and early exits are concerned.          *)
(* Times are whole seconds.  A text is a sequence of one-character         *)
(* strings so that str.strip() and len() are computed, not assumed.        *)
(***************************************************************************)
EXTENDS Integers, Sequences, FiniteSets, TLC

VARIABLES
    \* ---- comment collection (one call of get_video_comments_smart or of
    \*      get_all_video_comments_paginated) ----
    cargs,            \* the arguments of the call (CLI values)
    video,            \* the comments of the video on the platform, in order
    cpc,              \* position of the call: idle, loop, sleep, done
    params,           \* parameters of the running collection function
    all_comments,     \* all_comments / comments_list
    batch_count,      \* batch_count
    total_processed,  \* total_processed / comment_count
    pulled,           \* items pulled from the SDK comment iterator so far
    sleeps,           \* log of the asyncio.sleep calls of the loop
    raised,           \* the SDK comment iterator raised
    result,           \* the list returned by the call
    \* ---- video search (one call of search_hashtag_videos,
    \*      search_user_videos or search_trending_videos) ----
    sargs,            \* search type, count and the filter arguments
    spc,              \* position of the call: loop, done
    videos,           \* videos
    processed,        \* processed
    kept,             \* kept
    discarded,        \* videos rejected by apply_video_filters so far
    sraised,          \* the SDK video iterator raised
    sresult,          \* the list returned by the call
    \* ---- command line: argument validation and main() of a scraper ----
    cli,              \* parsed arguments and environment of the run
    lpc,              \* position of the run
    prompts,          \* the input() prompts reached so far
    effects,          \* what the run has done outside the process so far
    search_type,      \* search_type of the TikTok main()
    \* ---- relevance (one call of calculate_video_relevance) ----
    rargs,            \* search_term, video_data and relevance_threshold
    rpc,              \* position of the call: idle, call, done
    rresult,          \* the dict returned by the call
    \* ---- saving (the calls of save_videos and save_videos_jsonl of one
    \*      process) ----
    svargs,           \* args.output_prefix and search_type of the calls
    dir,              \* the files '<prefix>_#k.jsonl' of args.output_dir
    saves,            \* log of the calls that returned a file name
    calls             \* number of calls so far

commentVars == <<cargs, video, cpc, params, all_comments, batch_count,
                 total_processed, pulled, sleeps, raised, result>>

searchVars == <<sargs, spc, videos, processed, kept, discarded, sraised, sresult>>

cliVars == <<cli, lpc, prompts, effects, search_type>>

relevanceVars == <<rargs, rpc, rresult>>

saveVars == <<svargs, dir, saves, calls>>

vars == <<commentVars, searchVars, cliVars, relevanceVars, saveVars>>

----------------------------------------------------------------------------
\* Bounds of the exploration
MaxVideoLen == 3      \* comments of a video
MaxReplyLen == 2      \* replies of a comment
MaxComments == 2      \* --max-comments ranges over 1..MaxComments
MaxTotal    == 2      \* --max-total-comments ranges over 1..MaxTotal
MaxBatch    == 2      \* --batch-size ranges over 1..MaxBatch
MaxReplies  == 1      \* --max-replies ranges over 1..MaxReplies
MaxCount    == 2      \* count of a search ranges over 1..MaxCount

\* Program constants
MinCommentLen == 2        \* len(comment_text) >= 2
UnlimitedCount == 999999  \* count=max_total_comments or 999999
SmartDelay == 2           \* delay_between_batches=2.0 in get_video_comments_smart
AutoLimit == 500          \* default_limit = 500
LoopGuardFactor == 5      \* `if processed >= count * 5: break`

None == 0                 \* Python None / a falsy integer option

Min(a, b) == IF a <= b THEN a ELSE b

----------------------------------------------------------------------------
\* Texts

RECURSIVE lstrip(_)
lstrip(s) == IF s # <<>> /\ Head(s) = " " THEN lstrip(Tail(s)) ELSE s

RECURSIVE rstrip(_)
rstrip(s) == IF s # <<>> /\ s[Len(s)] = " "
             THEN rstrip(SubSeq(s, 1, Len(s) - 1)) ELSE s

\* str.strip()
strip(s) == rstrip(lstrip(s))

\* `if comment_text and len(comment_text) >= 2`
is_valid_text(t) == t # <<>> /\ Len(t) >= MinCommentLen

\* An item yielded by an SDK iterator: as_dict['text'] is a string, or it is
\* None (none = TRUE), in which case .strip() raises and the item is skipped
\* by the per-item `except Exception: continue`.
Items == { [none |-> TRUE,  text |-> <<>>],
           [none |-> FALSE, text |-> <<" ", "a", " ">>],
           [none |-> FALSE, text |-> <<" ", "a", "b">>] }

RECURSIVE SeqsUpTo(_, _)
SeqsUpTo(S, n) ==
    IF n = 0 THEN { <<>> }
    ELSE LET shorter == SeqsUpTo(S, n - 1)
         IN  shorter \cup { Append(s, x) : s \in { t \in shorter : Len(t) = n - 1 }, x \in S }

Videos == SeqsUpTo(Items, MaxVideoLen)
ReplyStreams == SeqsUpTo(Items, MaxReplyLen)

\* The item is accepted as a comment
Accepted(item) == ~item.none /\ is_valid_text(strip(item.text))

----------------------------------------------------------------------------
\* variant of collect_replies: the break is taken one reply late
RECURSIVE collect_replies_late(_, _, _, _, _)
collect_replies_late(stream, i, acc, max_replies, failAt) ==
    IF i - 1 = failAt
    THEN [ok |-> FALSE, replies |-> acc]
    ELSE IF i > Len(stream)
    THEN [ok |-> TRUE, replies |-> acc]
    ELSE LET r == stream[i] IN
         IF r.none
         THEN collect_replies_late(stream, i + 1, acc, max_replies, failAt)
         ELSE IF is_valid_text(strip(r.text))
         THEN LET acc2 == Append(acc, [text |-> strip(r.text), reply_id |-> i]) IN
              IF Len(acc2) > max_replies
              THEN [ok |-> TRUE, replies |-> acc2]
              ELSE collect_replies_late(stream, i + 1, acc2, max_replies, failAt)
         ELSE collect_replies_late(stream, i + 1, acc, max_replies, failAt)

\* Replies of one comment: `async for reply in comment.replies(count=max_replies * 2)`
\* stream  the replies the SDK yields, i the next one, acc replies_list,
\* failAt  the number of replies after which the SDK iterator raises (-1: never)
RECURSIVE collect_replies(_, _, _, _, _)
collect_replies(stream, i, acc, max_replies, failAt) ==
    IF i - 1 = failAt
    THEN [ok |-> FALSE, replies |-> acc]            \* except Exception (outer try)
    ELSE IF i > Len(stream)
    THEN [ok |-> TRUE, replies |-> acc]             \* iterator exhausted
    ELSE LET r == stream[i] IN
         IF r.none
         THEN collect_replies(stream, i + 1, acc, max_replies, failAt)  \* continue
         ELSE IF is_valid_text(strip(r.text))
         THEN LET acc2 == Append(acc, [text |-> strip(r.text), reply_id |-> i]) IN
              IF Len(acc2) >= max_replies           \* reply_count >= max_replies
              THEN [ok |-> TRUE, replies |-> acc2]  \* break
              ELSE collect_replies(stream, i + 1, acc2, max_replies, failAt)
         ELSE collect_replies(stream, i + 1, acc, max_replies, failAt)

\* The replies part of a comment object
with_replies(include_replies, max_replies, rstream, failAt) ==
    LET yielded == SubSeq(rstream, 1, Min(Len(rstream), max_replies * 2))
        out == collect_replies(yielded, 1, <<>>, max_replies, failAt)
    IN  IF include_replies /\ out.ok
        THEN [replies |-> out.replies,
              replies_count |-> Len(out.replies),
              has_replies |-> Len(out.replies) > 0]
        ELSE [replies |-> <<>>, replies_count |-> 0, has_replies |-> FALSE]

\* What the reply iterator of a comment does: a stream and a failure point
ReplyChoices(include_replies) ==
    IF include_replies
    THEN { <<s, f>> : s \in ReplyStreams, f \in -1 .. MaxReplyLen }
    ELSE { << <<>>, -1 >> }

----------------------------------------------------------------------------
\* Values of the variables of a part of the program that is not running

NoCallArgs == [ entry |-> "none" ]
IdleParams == [ fn |-> "none", max |-> None, count |-> 0, delay |-> 0 ]

CommentsIdle ==
    /\ cargs = NoCallArgs
    /\ video = <<>>
    /\ cpc = "idle"
    /\ params = IdleParams
    /\ all_comments = <<>>
    /\ batch_count = 0
    /\ total_processed = 0
    /\ pulled = 0
    /\ sleeps = <<>>
    /\ raised = FALSE
    /\ result = <<>>

NoSearchArgs == [ search_type |-> "none" ]

SearchIdle ==
    /\ sargs = NoSearchArgs
    /\ spc = "idle"
    /\ videos = <<>>
    /\ processed = 0
    /\ kept = 0
    /\ discarded = 0
    /\ sraised = FALSE
    /\ sresult = <<>>

NoCli == [ scraper |-> "none" ]

CliIdle ==
    /\ cli = NoCli
    /\ lpc = "idle"
    /\ prompts = {}
    /\ effects = {}
    /\ search_type = "none"

NoRelevanceArgs == [ search_term |-> <<>> ]
NoRelevance == [ relevance_score |-> 0 ]

RelevanceIdle ==
    /\ rargs = NoRelevanceArgs
    /\ rpc = "idle"
    /\ rresult = NoRelevance

NoSaveArgs == [ output_prefix |-> "none" ]

SaveIdle ==
    /\ svargs = NoSaveArgs
    /\ dir = <<>>
    /\ saves = <<>>
    /\ calls = 0

----------------------------------------------------------------------------
\* Comment collection

VideoIds == { "", "unknown", "v1" }
Modes == { "limited", "adaptive", "paginated", "auto" }
DelayValues == { 0, 2, 5 }       \* values of --delay-between-batches, within [0, 60]

\* entry = "smart": get_video_comments_smart(...) as the search loops call it.
\* entry = "direct": get_all_video_comments_paginated called with the
\* max_total_comments and delay_between_batches of the arguments.
CallArgs ==
    [ entry : { "smart", "direct" },
      pagination_mode : Modes,
      video_id : VideoIds,
      max_comments : 1 .. MaxComments,
      include_replies : BOOLEAN,
      max_replies : 1 .. MaxReplies,
      batch_size : 1 .. MaxBatch,
      max_total_comments : 1 .. MaxTotal,
      delay_between_batches : DelayValues,
      sdk_exact_count : BOOLEAN ]   \* see sdk_available

InitComments ==
    /\ cargs \in { a \in CallArgs :
                     a.entry = "direct" =>
                        a.pagination_mode = "adaptive" /\ a.max_comments = 1 }
    /\ video \in Videos
    /\ cpc = "idle"
    /\ params = IdleParams
    /\ all_comments = <<>>
    /\ batch_count = 0
    /\ total_processed = 0
    /\ pulled = 0
    /\ sleeps = <<>>
    /\ raised = FALSE
    /\ result = <<>>
    /\ SearchIdle
    /\ CliIdle
    /\ RelevanceIdle
    /\ SaveIdle

\* Entry of get_video_comments / get_all_video_comments_paginated:
\* `if not video_id or video_id == 'unknown': return []`, else the loop starts
\* on video_obj.comments(count=count).
enter(fn, max, count, delay) ==
    /\ params' = [ fn |-> fn, max |-> max, count |-> count, delay |-> delay ]
    /\ cpc' = IF cargs.video_id = "" \/ cargs.video_id = "unknown"
              THEN "done" ELSE "loop"
    /\ UNCHANGED <<cargs, video, all_comments, batch_count, total_processed,
                   pulled, sleeps, raised, result>>
    /\ UNCHANGED <<searchVars, cliVars, relevanceVars, saveVars>>

\* variant: the 'paginated' branch forwards --max-total-comments
paginated_max_total_forwarded(a) == a.max_total_comments

\* `max_total_comments=None` of the 'paginated' branch
paginated_max_total(a) == None

\* get_video_comments_smart, one disjunct per pagination_mode
smart_limited ==
    /\ cpc = "idle" /\ cargs.entry = "smart" /\ cargs.pagination_mode = "limited"
    /\ enter("get_video_comments", cargs.max_comments, cargs.max_comments * 2, 0)

smart_paginated ==
    /\ cpc = "idle" /\ cargs.entry = "smart" /\ cargs.pagination_mode = "paginated"
    /\ enter("get_all_video_comments_paginated", paginated_max_total(cargs),
             IF paginated_max_total(cargs) = None THEN UnlimitedCount
             ELSE paginated_max_total(cargs), SmartDelay)

smart_adaptive ==
    /\ cpc = "idle" /\ cargs.entry = "smart" /\ cargs.pagination_mode = "adaptive"
    /\ enter("get_all_video_comments_paginated", cargs.max_total_comments,
             cargs.max_total_comments, SmartDelay)

smart_auto ==
    /\ cpc = "idle" /\ cargs.entry = "smart" /\ cargs.pagination_mode = "auto"
    /\ enter("get_all_video_comments_paginated", AutoLimit, AutoLimit, SmartDelay)

get_video_comments_smart ==
    smart_limited \/ smart_paginated \/ smart_adaptive \/ smart_auto

\* get_all_video_comments_paginated(api, video_id, include_replies, max_replies,
\*     max_total_comments, batch_size, delay_between_batches)
call_paginated ==
    /\ cpc = "idle" /\ cargs.entry = "direct"
    /\ enter("get_all_video_comments_paginated", cargs.max_total_comments,
             cargs.max_total_comments, cargs.delay_between_batches)

\* The SDK iterator comments(count=c) yields the comments of the video in
\* order.  The SDK fetches whole pages: it either stops after c items
\* (sdk_exact_count) or runs on to the end of the page, here of the video.
sdk_available ==
    IF cargs.sdk_exact_count THEN Min(params.count, Len(video)) ELSE Len(video)

\* `for comment in all_comments: comment["pagination_metadata"] = {...}`
with_metadata(cs, bc) ==
    [ i \in 1 .. Len(cs) |->
        [ text |-> cs[i].text, comment_id |-> cs[i].comment_id,
          replies_count |-> cs[i].replies_count, has_replies |-> cs[i].has_replies,
          replies |-> cs[i].replies, batch_number |-> cs[i].batch_number,
          comment_index |-> cs[i].comment_index,
          pagination_metadata |->
              [ total_comments_in_video |-> Len(cs), total_batches |-> bc + 1 ] ] ]

\* The loop is left (exhausted iterator or break): final statistics and return
returned(cs, bc) ==
    IF params.fn = "get_all_video_comments_paginated" THEN with_metadata(cs, bc) ELSE cs

\* variant: the limit is tested with > instead of >=
limit_reached_late(tp) == params.max # None /\ tp > params.max

\* `if max_total_comments and total_processed >= max_total_comments: break`
limit_reached(tp) == params.max # None /\ tp >= params.max

\* variant: the sleep is outside the batch test and follows every comment
sleep_due_every(tp, batch_size, delay) == delay > 0

\* `if total_processed % batch_size == 0: ... if delay_between_batches > 0: sleep`
sleep_due(tp, batch_size, delay) == tp % batch_size = 0 /\ delay > 0

\* variant: the limit is tested with > instead of >=
max_comments_exceeded(comment_count, max_comments) == comment_count > max_comments

\* `if comment_count >= max_comments: break`
max_comments_reached(comment_count, max_comments) == comment_count >= max_comments

after_accept(cs, bc, tp) ==
    IF limit_reached(tp)
    THEN cpc' = "done" /\ result' = returned(cs, bc)
    ELSE cpc' = "loop" /\ result' = result

\* One iteration of the loop of get_all_video_comments_paginated, up to the
\* await of asyncio.sleep if the iteration sleeps.
paginated_next ==
    /\ cpc = "loop" /\ params.fn = "get_all_video_comments_paginated"
    /\ pulled < sdk_available
    /\ pulled' = pulled + 1
    /\ LET item == video[pulled + 1] IN
       IF ~Accepted(item)
       THEN UNCHANGED <<cpc, all_comments, batch_count, total_processed, result>>
       ELSE \E rc \in ReplyChoices(cargs.include_replies) :
            LET rep == with_replies(cargs.include_replies, cargs.max_replies, rc[1], rc[2])
                obj == [ text |-> strip(item.text),
                         comment_id |-> pulled + 1,
                         replies_count |-> rep.replies_count,
                         has_replies |-> rep.has_replies,
                         replies |-> rep.replies,
                         batch_number |-> batch_count + 1,
                         comment_index |-> Len(all_comments) + 1 ]
                cs == Append(all_comments, obj)
                tp == total_processed + 1
                atBatch == tp % cargs.batch_size = 0
                bc == IF atBatch THEN batch_count + 1 ELSE batch_count
            IN  /\ all_comments' = cs
                /\ total_processed' = tp
                /\ batch_count' = bc
                /\ IF sleep_due(tp, cargs.batch_size, params.delay)
                   THEN cpc' = "sleep" /\ result' = result
                   ELSE after_accept(cs, bc, tp)
    /\ UNCHANGED <<cargs, video, params, sleeps, raised>>
    /\ UNCHANGED <<searchVars, cliVars, relevanceVars, saveVars>>

\* `await asyncio.sleep(delay_between_batches)` returns; then the limit check
paginated_sleep ==
    /\ cpc = "sleep"
    /\ sleeps' = Append(sleeps, [ seconds |-> params.delay,
                                 accepted |-> total_processed,
                                 pulled |-> pulled ])
    /\ after_accept(all_comments, batch_count, total_processed)
    /\ UNCHANGED <<cargs, video, params, all_comments, batch_count,
                   total_processed, pulled, raised>>
    /\ UNCHANGED <<searchVars, cliVars, relevanceVars, saveVars>>

\* One iteration of the loop of get_video_comments
limited_next ==
    /\ cpc = "loop" /\ params.fn = "get_video_comments"
    /\ pulled < sdk_available
    /\ pulled' = pulled + 1
    /\ LET item == video[pulled + 1] IN
       IF ~Accepted(item)
       THEN UNCHANGED <<cpc, all_comments, total_processed, result>>
       ELSE \E rc \in ReplyChoices(cargs.include_replies) :
            LET rep == with_replies(cargs.include_replies, cargs.max_replies, rc[1], rc[2])
                obj == [ text |-> strip(item.text),
                         comment_id |-> pulled + 1,
                         replies_count |-> rep.replies_count,
                         has_replies |-> rep.has_replies,
                         replies |-> rep.replies ]
                cs == Append(all_comments, obj)
                tp == total_processed + 1
            IN  /\ all_comments' = cs
                /\ total_processed' = tp
                /\ IF max_comments_reached(tp, params.max)
                   THEN cpc' = "done" /\ result' = cs
                   ELSE cpc' = "loop" /\ result' = result
    /\ UNCHANGED <<cargs, video, params, batch_count, sleeps, raised>>
    /\ UNCHANGED <<searchVars, cliVars, relevanceVars, saveVars>>

\* The SDK iterator is exhausted: the loop ends and the list is returned
comments_exhausted ==
    /\ cpc = "loop"
    /\ pulled = sdk_available
    /\ cpc' = "done"
    /\ result' = returned(all_comments, batch_count)
    /\ UNCHANGED <<cargs, video, params, all_comments, batch_count,
                   total_processed, pulled, sleeps, raised>>
    /\ UNCHANGED <<searchVars, cliVars, relevanceVars, saveVars>>

\* The SDK iterator raises: `except Exception as e: ... return []`
comments_raise ==
    /\ cpc = "loop"
    /\ cpc' = "done"
    /\ raised' = TRUE
    /\ result' = <<>>
    /\ UNCHANGED <<cargs, video, params, all_comments, batch_count,
                   total_processed, pulled, sleeps>>
    /\ UNCHANGED <<searchVars, cliVars, relevanceVars, saveVars>>

NextComments ==
    \/ get_video_comments_smart
    \/ call_paginated
    \/ paginated_next
    \/ paginated_sleep
    \/ limited_next
    \/ comments_exhausted
    \/ comments_raise

SpecComments == InitComments /\ [][NextComments]_vars

----------------------------------------------------------------------------
\* Video search

\* The fields of video_data that apply_video_filters reads, as
\* extract_video_data produces them.  created_at is a day number, None when
\* the video has no createTime; meaningful is the verdict of
\* is_meaningful_description(clean_description(description), ...).
\* The second record is the error record of extract_video_data.
VideoData ==
    { [ duration |-> 30, views |-> 1000, created_at |-> 7, meaningful |-> TRUE ],
      [ duration |-> 0,  views |-> 0,    created_at |-> None, meaningful |-> FALSE ],
      [ duration |-> 90, views |-> 1000, created_at |-> 7, meaningful |-> TRUE ],
      [ duration |-> 30, views |-> 10,   created_at |-> 3, meaningful |-> TRUE ] }

SearchTypes == { "hashtag", "user", "trending" }

SearchArgs ==
    [ search_type : SearchTypes,
      count : 1 .. MaxCount,
      add_comments : BOOLEAN,
      min_duration : { None, 10 },
      max_duration : { None, 60 },
      min_views : { None, 100 },
      created_after : { None, 5 },
      no_filter : BOOLEAN ]

\* apply_video_filters(video_data, args, search_term, logger)
apply_video_filters(v, a) ==
    IF a.min_duration # None /\ v.duration < a.min_duration THEN FALSE
    ELSE IF a.max_duration # None /\ v.duration > a.max_duration THEN FALSE
    ELSE IF a.min_views # None /\ v.views < a.min_views THEN FALSE
    ELSE IF a.created_after # None
            /\ (v.created_at = None \/ v.created_at <= a.created_after) THEN FALSE
    ELSE IF ~a.no_filter /\ ~v.meaningful THEN FALSE
    ELSE TRUE

\* variant: the break is taken one video late
enough_kept_late(k, count) == k > count

\* `if kept >= count: break`
enough_kept(k, count) == k >= count

\* variant: the guard is tested with > instead of >=
guard_hit_late(p, count) == p > count * LoopGuardFactor

\* `if processed >= count * 5: break`
guard_hit(p, count) == p >= count * LoopGuardFactor

\* The state after `videos = []; processed = 0; kept = 0`
InitSearch ==
    /\ sargs \in SearchArgs
    /\ spc = "loop"
    /\ videos = <<>>
    /\ processed = 0
    /\ kept = 0
    /\ discarded = 0
    /\ sraised = FALSE
    /\ sresult = <<>>
    /\ CommentsIdle
    /\ CliIdle
    /\ RelevanceIdle
    /\ SaveIdle

\* One iteration of `async for video in ....videos(count=count * 3)`.
\* The SDK yields a video with data d; its id is its position in the stream.
\* should_get_comments returns args.add_comments; get_video_comments_smart
\* returns a list (the collection functions catch their own exceptions), so
\* comments_retrieved becomes True when comments are requested.
search_iteration(d) ==
    LET p == processed + 1
        video_data == [ id |-> p, duration |-> d.duration, views |-> d.views,
                        created_at |-> d.created_at, meaningful |-> d.meaningful,
                        comments_retrieved |-> FALSE ]
        pass == apply_video_filters(video_data, sargs)
        vs == IF pass
              THEN Append(videos, [ video_data EXCEPT
                                      !.comments_retrieved = sargs.add_comments ])
              ELSE videos
        k == IF pass THEN kept + 1 ELSE kept
        stop == (pass /\ enough_kept(k, sargs.count)) \/ guard_hit(p, sargs.count)
    IN  /\ processed' = p
        /\ videos' = vs
        /\ kept' = k
        /\ discarded' = IF pass THEN discarded ELSE discarded + 1
        /\ spc' = IF stop THEN "done" ELSE "loop"
        /\ sresult' = IF stop THEN vs ELSE sresult
        /\ UNCHANGED <<sargs, sraised>>
        /\ UNCHANGED <<commentVars, cliVars, relevanceVars, saveVars>>

search_hashtag_videos ==
    /\ spc = "loop" /\ sargs.search_type = "hashtag"
    /\ \E d \in VideoData : search_iteration(d)

search_user_videos ==
    /\ spc = "loop" /\ sargs.search_type = "user"
    /\ \E d \in VideoData : search_iteration(d)

search_trending_videos ==
    /\ spc = "loop" /\ sargs.search_type = "trending"
    /\ \E d \in VideoData : search_iteration(d)

\* The SDK video iterator is exhausted: statistics are logged, videos returned
search_exhausted ==
    /\ spc = "loop"
    /\ spc' = "done"
    /\ sresult' = videos
    /\ UNCHANGED <<sargs, videos, processed, kept, discarded, sraised>>
    /\ UNCHANGED <<commentVars, cliVars, relevanceVars, saveVars>>

\* The SDK video iterator raises: `except Exception as e: ... return []`
search_raise ==
    /\ spc = "loop"
    /\ spc' = "done"
    /\ sraised' = TRUE
    /\ sresult' = <<>>
    /\ UNCHANGED <<sargs, videos, processed, kept, discarded>>
    /\ UNCHANGED <<commentVars, cliVars, relevanceVars, saveVars>>

NextSearch ==
    \/ search_hashtag_videos
    \/ search_user_videos
    \/ search_trending_videos
    \/ search_exhausted
    \/ search_raise

SpecSearch == InitSearch /\ [][NextSearch]_vars

----------------------------------------------------------------------------
\* Command line: validate_common_arguments, validate_tiktok_arguments,
\* validate_count_argument and the main() of the two scrapers.
\* An argument whose value a validation rejects is named by cli.invalid (at
\* most one per run); the other arguments have accepted values.

Scrapers == { "tiktok", "twitter" }
Targets == { "none", "hashtag", "user", "users_file", "trending" }
CommonInvalid == { "none", "quiet_verbose", "output_dir", "pyarrow", "count" }
TikTokInvalid == { "users_file", "count_per_user", "max_comments", "max_replies",
                   "relevance_threshold", "duration", "created_after",
                   "max_total_comments", "batch_size", "delay_between_batches",
                   "empty_target" }
TwitterInvalid == { "dates", "empty_target" }
Answers == { "y", "n" }

OutputFormats == { "jsonl", "parquet" }    \* choices of --output-format

CliArgs ==
    [ scraper : Scrapers,
      auto : BOOLEAN,
      dry_run : BOOLEAN,
      output_format : OutputFormats,
      s3_uri : { "none", "ok", "bad" },
      s3_only : BOOLEAN,
      aws_creds : BOOLEAN,          \* AWS_ACCESS_KEY_ID or AWS_PROFILE is set
      target : Targets,             \* --hashtag, --user, --users-file, --trending
      many_users : BOOLEAN,         \* len(users_list) * count_per_user > 200
      pagination_mode : Modes,
      add_comments : BOOLEAN,
      include_replies : BOOLEAN,
      ms_token : BOOLEAN,           \* --ms-token or TIKTOK_MS_TOKEN is set
      credentials : BOOLEAN,        \* the TWITTER_* variables are set
      invalid : CommonInvalid \cup TikTokInvalid \cup TwitterInvalid ]

InitCli ==
    /\ cli \in { a \in CliArgs :
                   /\ a.many_users => a.target = "users_file"
                   /\ a.invalid = "pyarrow" => a.output_format = "parquet"
                   /\ a.scraper = "tiktok" =>
                         /\ a.credentials
                         /\ a.invalid \in CommonInvalid \cup TikTokInvalid
                   /\ a.scraper = "twitter" =>
                         /\ a.target \in { "none", "hashtag" }
                         /\ a.pagination_mode = "limited"
                         /\ ~a.add_comments /\ ~a.include_replies /\ a.ms_token
                         /\ a.invalid \in CommonInvalid \cup TwitterInvalid }
    /\ lpc = "validate_common"
    /\ prompts = {}
    /\ effects = {}
    /\ search_type = "none"
    /\ CommentsIdle
    /\ SearchIdle
    /\ RelevanceIdle
    /\ SaveIdle

\* The run moves to position next, having shown the prompts ps and done es
cli_step(next, ps, es) ==
    /\ lpc' = next
    /\ prompts' = prompts \cup ps
    /\ effects' = effects \cup es
    /\ UNCHANGED <<cli, search_type>>
    /\ UNCHANGED <<commentVars, searchVars, relevanceVars, saveVars>>

\* parser.error(...): argparse prints the message and exits with status 2
parser_error == "exit2"

\* `if not aws_access_key and not aws_profile: ... if not args.auto: input(...)`
s3_asks(a) == a.s3_uri # "none" /\ ~a.aws_creds /\ ~a.auto

\* `if total_requests > 200 and not args.auto: ... if not args.auto: input(...)`
many_users_asks(a) == a.many_users /\ ~a.auto

\* variant: the confirmation does not look at --auto
paginated_asks_always(a) == a.pagination_mode = "paginated"

\* `if args.pagination_mode == 'paginated' and not args.auto: ... input(...)`
paginated_asks(a) == a.pagination_mode = "paginated" /\ ~a.auto

\* `if not ms_token and not args.auto: ... if not args.auto: input(...)`
ms_token_asks(a) == ~a.ms_token /\ ~a.auto

\* `else: if not args.auto: ... choice = input(...)`
menu_asks(a) == ~a.auto

\* `if not hashtag and not args.auto: hashtag = input(...)`
twitter_hashtag_asks(a) == a.target = "none" /\ ~a.auto

\* `if args.s3_uri: aws_access_key = os.environ.get('AWS_ACCESS_KEY_ID') ...`
aws_env_read(a) == IF a.s3_uri = "ok" THEN { "aws_env_checked" } ELSE {}

\* validate_output_format_arguments, then the next validation of main()
after_s3 ==
    IF cli.output_format = "parquet" /\ cli.invalid = "pyarrow" THEN parser_error
    ELSE IF cli.scraper = "tiktok" THEN "validate_tiktok_users"
    ELSE "validate_count"

\* validate_common_arguments with validate_s3_arguments
validate_common_arguments ==
    /\ lpc = "validate_common"
    /\ IF cli.invalid = "quiet_verbose" \/ cli.invalid = "output_dir"
       THEN cli_step(parser_error, {}, {})
       ELSE IF cli.s3_uri = "bad" \/ (cli.s3_only /\ cli.s3_uri = "none")
       THEN cli_step(parser_error, {}, { "makedirs" })
       ELSE IF s3_asks(cli)
       THEN \E confirm \in Answers :
               cli_step(IF confirm = "y" THEN after_s3 ELSE parser_error,
                        { "s3_confirm" }, { "makedirs" } \cup aws_env_read(cli))
       ELSE cli_step(after_s3, {}, { "makedirs" } \cup aws_env_read(cli))

\* validate_tiktok_arguments: --auto requirement and the users file
validate_tiktok_users ==
    /\ lpc = "validate_tiktok_users"
    /\ IF cli.auto /\ cli.target = "none"
       THEN cli_step(parser_error, {}, {})
       ELSE IF cli.target = "users_file"
               /\ cli.invalid \in { "users_file", "count_per_user" }
       THEN cli_step(parser_error, {}, {})
       ELSE IF cli.target = "users_file" /\ many_users_asks(cli)
       THEN \E confirm \in Answers :
               cli_step(IF confirm = "y" THEN "validate_tiktok_fields" ELSE parser_error,
                        { "many_users_confirm" }, {})
       ELSE cli_step("validate_tiktok_fields", {}, {})

\* validate_tiktok_arguments: ranges and dependencies
validate_tiktok_fields ==
    /\ lpc = "validate_tiktok_fields"
    /\ IF \/ cli.invalid \in { "max_comments", "max_replies", "relevance_threshold",
                               "duration", "created_after" }
          \/ (cli.include_replies /\ ~cli.add_comments)
       THEN cli_step(parser_error, {}, {})
       ELSE cli_step("validate_pagination", {}, {})

validate_pagination_arguments ==
    /\ lpc = "validate_pagination"
    /\ IF \/ cli.invalid \in { "max_total_comments", "batch_size", "delay_between_batches" }
          \/ (cli.pagination_mode # "limited" /\ ~cli.add_comments)
       THEN cli_step(parser_error, {}, {})
       ELSE IF paginated_asks(cli)
       THEN \E confirm \in Answers :
               cli_step(IF confirm = "y" THEN "clean_inputs" ELSE parser_error,
                        { "paginated_confirm" }, {})
       ELSE cli_step("clean_inputs", {}, {})

\* validate_tiktok_arguments: clean_hashtag_input / clean_username_input
clean_inputs ==
    /\ lpc = "clean_inputs"
    /\ IF cli.target \in { "hashtag", "user" } /\ cli.invalid = "empty_target"
       THEN cli_step(parser_error, {}, {})
       ELSE cli_step("validate_count", {}, {})

validate_count_argument ==
    /\ lpc = "validate_count"
    /\ IF cli.invalid = "count"
       THEN cli_step(parser_error, {}, {})
       ELSE cli_step("dry_run_check", {}, {})

\* variant: the dry run is honoured only together with --auto
dry_run_returns_with_auto(a) == a.dry_run /\ a.auto

\* `if args.dry_run:`
dry_run_returns(a) == a.dry_run

\* `if args.dry_run: ... return` of both main()
dry_run_check ==
    /\ lpc = "dry_run_check"
    /\ IF dry_run_returns(cli)
       THEN cli_step("returned", {}, {})
       ELSE IF cli.scraper = "tiktok"
       THEN cli_step("get_ms_token", {}, {})
       ELSE cli_step("check_credentials", {}, {})

\* ---- TikTok main() ----

get_ms_token ==
    /\ lpc = "get_ms_token"
    /\ IF ms_token_asks(cli)
       THEN cli_step("search_mode", { "ms_token" }, { "token_checked" })
       ELSE cli_step("search_mode", {}, { "token_checked" })

\* `# 3. Determina modalità di ricerca`
search_mode ==
    /\ lpc = "search_mode"
    /\ UNCHANGED <<cli, effects>>
    /\ UNCHANGED <<commentVars, searchVars, relevanceVars, saveVars>>
    /\ IF cli.target \in { "hashtag", "user", "trending" }
       THEN /\ search_type' = cli.target
            /\ lpc' = "create_session"
            /\ prompts' = prompts
       ELSE IF menu_asks(cli)
       THEN \E choice \in { "1", "2", "3", "x" }, typed \in BOOLEAN :
               /\ prompts' = prompts \cup { "search_mode_menu" }
                                \cup (IF choice = "1" THEN { "hashtag" }
                                      ELSE IF choice = "2" THEN { "username" } ELSE {})
               /\ search_type' = IF choice = "1" /\ typed THEN "hashtag"
                                 ELSE IF choice = "2" /\ typed THEN "user"
                                 ELSE IF choice = "3" THEN "trending"
                                 ELSE "none"
               /\ lpc' = IF search_type' = "none" THEN "exit1" ELSE "create_session"
       ELSE /\ search_type' = "none"
            /\ lpc' = "exit1"
            /\ prompts' = prompts

\* `async with TikTokApi() as api: ... await api.create_sessions(...)`
create_session ==
    /\ lpc = "create_session"
    /\ \E ok \in BOOLEAN :
          cli_step(IF ok THEN "tiktok_search" ELSE "exit1", {}, { "session" })

\* `# 6. Esegui ricerca`, the list is empty or not
tiktok_search ==
    /\ lpc = "tiktok_search"
    /\ \E found \in BOOLEAN :
          cli_step(IF found THEN "tiktok_save" ELSE "finished", {}, { "search_request" })

\* the effects of writing a data file of format fmt
written(fmt) ==
    { "file_written", IF fmt = "parquet" THEN "parquet_written" ELSE "jsonl_written" }

\* save_videos of the TikTok scraper: get_next_filename with its default
\* extension=".jsonl" and one json.dumps line per video; args.output_format
\* is not read
save_videos_format(a) == "jsonl"

\* save_tweets: `filename = f"{output_dir}/{output_prefix}{hashtag}_{timestamp}.jsonl"`
save_tweets_format(a) == "jsonl"

\* `filename = save_videos(videos, search_type, search_term, args, logger)`;
\* when the write raises, save_videos logs the error and returns None
tiktok_save ==
    /\ lpc = "tiktok_save"
    /\ \E ok \in BOOLEAN :
          cli_step("finished", {}, IF ok THEN written(save_videos_format(cli)) ELSE {})

\* ---- Twitter main() ----

check_credentials ==
    /\ lpc = "check_credentials"
    /\ cli_step(IF cli.credentials THEN "validate_dates" ELSE "exit1",
                {}, { "credentials_checked" })

validate_date_arguments ==
    /\ lpc = "validate_dates"
    /\ cli_step(IF cli.invalid = "dates" THEN parser_error ELSE "create_client", {}, {})

create_twitter_client ==
    /\ lpc = "create_client"
    /\ \E ok \in BOOLEAN :
          cli_step(IF ok THEN "twitter_hashtag" ELSE "exit1", {}, { "client" })

\* `# 4. Gestisci input hashtag`
twitter_hashtag ==
    /\ lpc = "twitter_hashtag"
    /\ IF twitter_hashtag_asks(cli)
       THEN \E typed \in BOOLEAN, clean \in BOOLEAN :
               cli_step(IF ~typed THEN "exit1"
                        ELSE IF ~clean THEN parser_error ELSE "twitter_search",
                        { "twitter_hashtag" }, {})
       ELSE IF cli.target = "none"
       THEN cli_step("exit1", {}, {})
       ELSE IF cli.invalid = "empty_target"
       THEN cli_step(parser_error, {}, {})
       ELSE cli_step("twitter_search", {}, {})

twitter_search ==
    /\ lpc = "twitter_search"
    /\ \E found \in BOOLEAN :
          cli_step(IF found THEN "twitter_save" ELSE "finished", {}, { "search_request" })

twitter_save ==
    /\ lpc = "twitter_save"
    /\ \E ok \in BOOLEAN :
          cli_step("finished", {}, IF ok THEN written(save_tweets_format(cli)) ELSE {})

NextCli ==
    \/ validate_common_arguments
    \/ validate_tiktok_users
    \/ validate_tiktok_fields
    \/ validate_pagination_arguments
    \/ clean_inputs
    \/ validate_count_argument
    \/ dry_run_check
    \/ get_ms_token
    \/ search_mode
    \/ create_session
    \/ tiktok_search
    \/ tiktok_save
    \/ check_credentials
    \/ validate_date_arguments
    \/ create_twitter_client
    \/ twitter_hashtag
    \/ twitter_search
    \/ twitter_save

SpecCli == InitCli /\ [][NextCli]_vars

----------------------------------------------------------------------------
\* Relevance: calculate_hashtag_relevance, calculate_description_relevance
\* and calculate_video_relevance.
\* Strings are sequences of characters.  A score is an exact fraction
\* [n, d]; the returned scores and the threshold are in thousandths.

MaxHashtags == 2      \* hashtags of a video
MaxMatches  == 2      \* words "ab" of a description
MaxFiller   == 20     \* words "b" of a description

HashtagWeight == 6        \* `(hashtag_score * 0.6)`, in tenths
DescriptionWeight == 4    \* `(description_score * 0.4)`, in tenths
ExactPoints == 4          \* `matches += 2`, in halves
ContainingPoints == 3     \* `matches += 1.5`, in halves
ContainedPoints == 1      \* `partial_matches * 0.5`, in halves
WordsPerMatch == 10       \* `description_words * 0.1`

Max(a, b) == IF a >= b THEN a ELSE b

\* str.lower()
lower_char(c) == IF c = "A" THEN "a" ELSE IF c = "B" THEN "b" ELSE c
lower(s) == [ i \in 1 .. Len(s) |-> lower_char(s[i]) ]

\* `sub in s`
str_in(sub, s) ==
    \E i \in 0 .. (Len(s) - Len(sub)) : SubSeq(s, i + 1, i + Len(sub)) = sub

\* s.count(w): the non-overlapping occurrences of the non-empty w in s
RECURSIVE str_count(_, _)
str_count(s, w) ==
    IF Len(s) < Len(w) THEN 0
    ELSE IF SubSeq(s, 1, Len(w)) = w
    THEN 1 + str_count(SubSeq(s, Len(w) + 1, Len(s)), w)
    ELSE str_count(Tail(s), w)

\* s.split(): the words of s between runs of whitespace; cur is the word
\* being read
RECURSIVE str_split(_, _)
str_split(s, cur) ==
    IF s = <<>> THEN (IF cur = <<>> THEN <<>> ELSE << cur >>)
    ELSE IF Head(s) = " "
    THEN (IF cur = <<>> THEN <<>> ELSE << cur >>) \o str_split(Tail(s), <<>>)
    ELSE str_split(Tail(s), Append(cur, Head(s)))

\* body of `for hashtag in video_hashtags:` for one hashtag, in halves
hashtag_points(search_term_lower, hashtag) ==
    LET hashtag_lower == strip(lower(hashtag))
    IN  IF search_term_lower = hashtag_lower THEN ExactPoints
        ELSE IF str_in(search_term_lower, hashtag_lower) THEN ContainingPoints
        ELSE IF str_in(hashtag_lower, search_term_lower) THEN ContainedPoints
        ELSE 0

\* total_score of the hashtags from position i on, in halves
RECURSIVE total_score(_, _, _)
total_score(search_term_lower, video_hashtags, i) ==
    IF i > Len(video_hashtags) THEN 0
    ELSE hashtag_points(search_term_lower, video_hashtags[i])
         + total_score(search_term_lower, video_hashtags, i + 1)

calculate_hashtag_relevance(search_term, video_hashtags) ==
    IF video_hashtags = <<>> \/ search_term = <<>> THEN [ n |-> 0, d |-> 1 ]
    ELSE LET search_term_lower == strip(lower(search_term))
             total == total_score(search_term_lower, video_hashtags, 1)
             max_possible_score == Len(video_hashtags) * ExactPoints
         IN  [ n |-> Min(total, max_possible_score), d |-> max_possible_score ]

\* `for word in search_words: matches += description_lower.count(word)`
RECURSIVE word_matches(_, _, _)
word_matches(search_words, description_lower, i) ==
    IF i > Len(search_words) THEN 0
    ELSE str_count(description_lower, search_words[i])
         + word_matches(search_words, description_lower, i + 1)

calculate_description_relevance(search_term, description) ==
    IF description = <<>> \/ search_term = <<>> THEN [ n |-> 0, d |-> 1 ]
    ELSE LET search_term_lower == strip(lower(search_term))
             description_lower == lower(description)
             search_words == str_split(search_term_lower, <<>>)
             matches == word_matches(search_words, description_lower, 1)
             description_words == Len(str_split(description_lower, <<>>))
             tenths == Max(description_words, WordsPerMatch)
         IN  IF description_words = 0 THEN [ n |-> 0, d |-> 1 ]
             ELSE [ n |-> Min(matches * WordsPerMatch, tenths), d |-> tenths ]

\* variant: hashtags and description weigh the same
weighted_sum_equal(h, ds) ==
    [ n |-> 5 * h.n * ds.d + 5 * ds.n * h.d, d |-> 10 * h.d * ds.d ]

\* `relevance_score = (hashtag_score * 0.6) + (description_score * 0.4)`
weighted_sum(h, ds) ==
    [ n |-> HashtagWeight * h.n * ds.d + DescriptionWeight * ds.n * h.d,
      d |-> 10 * h.d * ds.d ]

\* round(x, 3) of a float close to the fraction q, in thousandths: when q is
\* half-way between two thousandths the float may lie on either side
round3(q) ==
    LET k == (1000 * q.n) \div q.d
        r == (1000 * q.n) % q.d
    IN  IF 2 * r < q.d THEN { k }
        ELSE IF 2 * r > q.d THEN { k + 1 }
        ELSE { k, k + 1 }

\* `relevance_score >= relevance_threshold` on floats: 0.0 >= 0.0 holds; when a
\* non-zero score equals the threshold the floats may compare either way
is_relevant(q, relevance_threshold) ==
    IF 1000 * q.n > relevance_threshold * q.d THEN { TRUE }
    ELSE IF 1000 * q.n < relevance_threshold * q.d THEN { FALSE }
    ELSE IF q.n = 0 THEN { TRUE }
    ELSE BOOLEAN

\* a description of k words "ab" followed by f words "b"
RECURSIVE Words(_, _)
Words(k, f) ==
    IF k > 0 THEN <<"a", "b">> \o (IF k + f > 1 THEN <<" ">> ELSE <<>>) \o Words(k - 1, f)
    ELSE IF f > 0 THEN <<"b">> \o (IF f > 1 THEN <<" ">> ELSE <<>>) \o Words(k, f - 1)
    ELSE <<>>

SearchTerms ==
    { <<>>, <<" ">>, <<"a">>, <<"A", "b">>, <<"a", " ", "b">> }
Hashtags == { <<"a">>, <<"A", "b">>, <<"a", "b", "b">>, <<"b">> }
Descriptions ==
    { <<" ">> } \cup { Words(k, f) : k \in 0 .. MaxMatches, f \in 0 .. MaxFiller }
RelevanceThresholds == { 0, 450, 1000 }   \* --relevance-threshold in [0.0, 1.0]

RelevanceArgs ==
    [ search_term : SearchTerms,
      hashtags : SeqsUpTo(Hashtags, MaxHashtags),
      description : Descriptions,
      relevance_threshold : RelevanceThresholds ]

InitRelevance ==
    /\ rargs \in RelevanceArgs
    /\ rpc = "call"
    /\ rresult = NoRelevance
    /\ CommentsIdle
    /\ SearchIdle
    /\ CliIdle
    /\ SaveIdle

calculate_video_relevance ==
    /\ rpc = "call"
    /\ LET hashtag_score == calculate_hashtag_relevance(rargs.search_term, rargs.hashtags)
           description_score ==
               calculate_description_relevance(rargs.search_term, rargs.description)
           relevance_score == weighted_sum(hashtag_score, description_score)
       IN  \E rs \in round3(relevance_score), hs \in round3(hashtag_score),
              ds \in round3(description_score),
              ir \in is_relevant(relevance_score, rargs.relevance_threshold) :
              rresult' = [ relevance_score |-> rs, is_relevant |-> ir,
                           hashtag_score |-> hs, description_score |-> ds ]
    /\ rpc' = "done"
    /\ UNCHANGED rargs
    /\ UNCHANGED <<commentVars, searchVars, cliVars, saveVars>>

NextRelevance == calculate_video_relevance

SpecRelevance == InitRelevance /\ [][NextRelevance]_vars

----------------------------------------------------------------------------
\* Saving: save_videos of the TikTok scraper and save_videos_jsonl of
\* core/file_handlers.py, called any number of times by one process on one
\* output directory.  A file '<prefix>_#k.jsonl' is the pair <<prefix, k>>.

MaxExisting == 2      \* numbers of the files present when the process starts
MaxSaves    == 3      \* calls of one process
MaxSaved    == 2      \* videos of a call

DefaultPrefix == "tiktok_scraper"                 \* `else "tiktok_scraper"`
MultipleUsersPrefix == "tiktok_multiple_users"    \* `else f"tiktok_multiple_users"`

MaxFileNo == MaxExisting + MaxSaves + 1
SaveFunctions == { "save_videos", "save_videos_jsonl" }
OutputPrefixes == { "", "p" }                     \* values of --output-prefix
Prefixes == { DefaultPrefix, MultipleUsersPrefix, "p" }
FileNames == Prefixes \X (1 .. MaxFileNo)

Absent == [ kind |-> "absent", lines |-> 0 ]
Old == [ kind |-> "old", lines |-> 0 ]            \* written before the process started

\* os.path.exists(filename)
exists(d, prefix, counter) ==
    counter <= MaxFileNo /\ d[<<prefix, counter>>].kind # "absent"

\* variant: the number of the files of the prefix, plus one
get_next_filename_by_count(d, prefix, counter) ==
    Cardinality({ k \in 1 .. MaxFileNo : exists(d, prefix, k) }) + 1

\* `while True: ... if not os.path.exists(filename): return filename, counter`
RECURSIVE get_next_filename(_, _, _)
get_next_filename(d, prefix, counter) ==
    IF exists(d, prefix, counter) THEN get_next_filename(d, prefix, counter + 1)
    ELSE counter

\* `base_prefix = args.output_prefix if args.output_prefix else ...`
base_prefix(fn, a) ==
    IF a.output_prefix # "" THEN a.output_prefix
    ELSE IF fn = "save_videos_jsonl" /\ a.search_type = "multiple_users"
    THEN MultipleUsersPrefix
    ELSE DefaultPrefix

\* json.dumps of the text of a video: a line feed becomes the two characters
\* backslash and n, and the string is quoted
RECURSIVE json_escape(_)
json_escape(t) ==
    IF t = <<>> THEN <<>>
    ELSE (IF Head(t) = "\n" THEN <<"\\", "n">> ELSE << Head(t) >>) \o json_escape(Tail(t))

json_dumps(t) == <<"\"">> \o json_escape(t) \o <<"\"">>

\* `for video in videos: ... f.write(json_line + '\n')`
RECURSIVE file_content(_, _)
file_content(vs, i) ==
    IF i > Len(vs) THEN <<>>
    ELSE json_dumps(vs[i]) \o <<"\n">> \o file_content(vs, i + 1)

\* the lines of a file
line_count(content) == str_count(content, <<"\n">>)

VideoTexts == { <<"a">>, <<"a", "\n", "b">> }
SavedVideos == SeqsUpTo(VideoTexts, MaxSaved)
SaveOutcomes == { "ok", "open_fails", "write_fails" }

SaveArgs == [ output_prefix : OutputPrefixes, search_type : { "hashtag", "multiple_users" } ]

\* the prefixes the calls of a process can use
UsedPrefixes(a) == { base_prefix(fn, a) : fn \in SaveFunctions }

InitSave ==
    /\ svargs \in SaveArgs
    /\ \E present \in [ UsedPrefixes(svargs) -> SUBSET (1 .. MaxExisting) ] :
          dir = [ nm \in FileNames |->
                    IF nm[1] \in UsedPrefixes(svargs) /\ nm[2] \in present[nm[1]]
                    THEN Old ELSE Absent ]
    /\ saves = <<>>
    /\ calls = 0
    /\ CommentsIdle
    /\ SearchIdle
    /\ CliIdle
    /\ RelevanceIdle

\* one call of fn: nothing without videos; otherwise the name is chosen, the
\* file is opened with mode 'w' and the lines are written; an exception of
\* open or of a write is caught and None is returned
save(fn) ==
    /\ calls < MaxSaves
    /\ calls' = calls + 1
    /\ UNCHANGED svargs
    /\ UNCHANGED <<commentVars, searchVars, cliVars, relevanceVars>>
    /\ \E vs \in SavedVideos, outcome \in SaveOutcomes :
          IF vs = <<>> \/ outcome = "open_fails"
          THEN UNCHANGED <<dir, saves>>
          ELSE LET prefix == base_prefix(fn, svargs)
                   file_number == get_next_filename(dir, prefix, 1)
                   filename == <<prefix, file_number>>
               IN  IF outcome = "write_fails"
                   THEN /\ dir' = [ dir EXCEPT ![filename] = [ kind |-> "partial", lines |-> 0 ] ]
                        /\ UNCHANGED saves
                   ELSE /\ dir' = [ dir EXCEPT ![filename] =
                                       [ kind |-> "saved",
                                         lines |-> line_count(file_content(vs, 1)) ] ]
                        /\ saves' = Append(saves,
                                       [ fn |-> fn, prefix |-> prefix,
                                         file_number |-> file_number,
                                         videos |-> Len(vs),
                                         existed |-> exists(dir, prefix, file_number),
                                         in_use |-> { k \in 1 .. MaxFileNo :
                                                        exists(dir, prefix, k) } ])

save_videos == save("save_videos")

save_videos_jsonl == save("save_videos_jsonl")

NextSave ==
    \/ save_videos
    \/ save_videos_jsonl

SpecSave == InitSave /\ [][NextSave]_vars

----------------------------------------------------------------------------
\* Properties of the comment collection (checked under SpecComments)

InPaginated == params.fn = "get_all_video_comments_paginated"
InLimited == params.fn = "get_video_comments"
ViaSmart(mode) == cargs.entry = "smart" /\ cargs.pagination_mode = mode

\* comment ids of a list of comment objects
comment_ids(cs) == [ i \in 1 .. Len(cs) |-> cs[i].comment_id ]

\* positions, among the first n comments of the video, of the comments whose
\* stripped text has at least 2 characters
RECURSIVE valid_positions(_)
valid_positions(n) ==
    IF n = 0 THEN <<>>
    ELSE IF ~video[n].none /\ Len(strip(video[n].text)) >= 2
         THEN Append(valid_positions(n - 1), n)
         ELSE valid_positions(n - 1)

first_n(seq, n) == SubSeq(seq, 1, Min(n, Len(seq)))

increasing(seq) == \A i, j \in 1 .. Len(seq) : i < j => seq[i] < seq[j]

\* C1: a call of get_all_video_comments_paginated with max_total_comments = N
\* (N >= 1) never holds nor returns more than N comments, and once the N-th
\* comment is accepted the iterator position stays at that comment: no further
\* item is pulled.
C1_AtMostN ==
    (InPaginated /\ params.max # None) =>
        /\ Len(all_comments) <= params.max
        /\ Len(result) <= params.max
        /\ Len(all_comments) = params.max =>
               pulled = all_comments[params.max].comment_id

\* the limit stopped the loop while the SDK iterator had more to yield
C1_Witness ==
    /\ InPaginated /\ params.max # None /\ cpc = "done" /\ ~raised
    /\ Len(result) = params.max
    /\ pulled < sdk_available

\* C2: with delay_between_batches > 0 the loop has slept floor(n / batch_size)
\* times when n comments are accepted (one sleep is pending while the loop is
\* at the await); the k-th sleep took place with exactly k * batch_size
\* comments accepted and with the iterator still at the (k * batch_size)-th
\* accepted comment.
C2_SleepPerBatch ==
    (InPaginated /\ params.delay > 0) =>
        /\ Len(sleeps) = (total_processed \div cargs.batch_size)
                            - (IF cpc = "sleep" THEN 1 ELSE 0)
        /\ \A k \in 1 .. Len(sleeps) :
              /\ sleeps[k].accepted = k * cargs.batch_size
              /\ sleeps[k].pulled = all_comments[k * cargs.batch_size].comment_id
        /\ cpc = "sleep" => total_processed % cargs.batch_size = 0

\* a finished call that slept once and accepted a comment outside a full batch
C2_Witness ==
    /\ InPaginated /\ params.delay > 0 /\ cpc = "done" /\ ~raised
    /\ cargs.batch_size = 2
    /\ total_processed = 3
    /\ Len(sleeps) = 1

\* C3: in a pagination mode other than 'limited' every pause between batches
\* lasts the value of --delay-between-batches.
C3_DelayFromCli ==
    (cargs.entry = "smart" /\ cargs.pagination_mode # "limited") =>
        \A k \in 1 .. Len(sleeps) : sleeps[k].seconds = cargs.delay_between_batches

\* C4 as claimed: in 'paginated' mode the call returns, in SDK order, every
\* comment the SDK iterator yielded whose stripped text has at least 2
\* characters.
C4_AllYielded ==
    (ViaSmart("paginated") /\ cpc = "done") =>
        comment_ids(result) = valid_positions(pulled)

\* C4 amended: in 'paginated' mode, whatever --max-total-comments is, a call
\* whose SDK iterator ends without raising has pulled every comment of the
\* video and returns, in SDK order, every one whose stripped text has at least
\* 2 characters; a call whose SDK iterator raises returns the empty list.
C4_AllYieldedUnlessRaise ==
    (ViaSmart("paginated") /\ cpc = "done") =>
        IF raised THEN result = <<>>
        ELSE /\ cargs.video_id = "v1" => pulled = Len(video)
             /\ comment_ids(result) = valid_positions(pulled)
             /\ \A i \in 1 .. Len(result) :
                   result[i].text = strip(video[result[i].comment_id].text)

\* 'paginated' mode returned more comments than --max-total-comments
C4_Witness ==
    /\ ViaSmart("paginated") /\ cpc = "done" /\ ~raised
    /\ Len(result) > cargs.max_total_comments
    /\ Len(result) < Len(video)

\* C5: in 'adaptive' mode, with an SDK iterator that yields at most count
\* items and ends without raising, the call returns the first
\* N = max_total_comments comments of the video whose stripped text has at
\* least 2 characters, or all of them when there are fewer than N.
C5_AdaptiveUpToN ==
    ( /\ ViaSmart("adaptive") /\ cpc = "done"
      /\ cargs.sdk_exact_count /\ ~raised /\ cargs.video_id = "v1" ) =>
        comment_ids(result) =
            first_n(valid_positions(Len(video)), cargs.max_total_comments)

\* C6: get_video_comments never holds nor returns more than max_comments
\* comments; the comments are the accepted items in SDK order, each with a
\* stripped text of at least 2 characters; once max_comments are accepted the
\* iterator position stays at the last accepted comment.
C6_LimitedAtMost ==
    InLimited =>
        /\ Len(all_comments) <= params.max
        /\ Len(all_comments) = params.max =>
               pulled = all_comments[params.max].comment_id
        /\ cpc = "done" =>
              /\ Len(result) <= cargs.max_comments
              /\ increasing(comment_ids(result))
              /\ \A i \in 1 .. Len(result) :
                    /\ result[i].comment_id \in 1 .. pulled
                    /\ result[i].text = strip(video[result[i].comment_id].text)
                    /\ Len(result[i].text) >= 2
              /\ ~raised => comment_ids(result) = valid_positions(pulled)

\* the limit stopped the loop while the SDK iterator had more to yield
C6_Witness ==
    /\ InLimited /\ cpc = "done" /\ ~raised
    /\ Len(result) = cargs.max_comments
    /\ Len(result) >= 2
    /\ pulled < sdk_available

\* the comment object is well formed with respect to its replies
replies_consistent(c) ==
    /\ Len(c.replies) <= cargs.max_replies
    /\ c.replies_count = Len(c.replies)
    /\ c.has_replies <=> (c.replies_count > 0)
    /\ ~cargs.include_replies => c.replies = <<>>

\* C7: every comment object collected or returned by get_video_comments or
\* get_all_video_comments_paginated has at most max_replies replies,
\* replies_count = len(replies), has_replies exactly when replies_count > 0,
\* and no replies when include_replies is false.
C7_RepliesConsistent ==
    /\ \A i \in 1 .. Len(all_comments) : replies_consistent(all_comments[i])
    /\ \A i \in 1 .. Len(result) : replies_consistent(result[i])

\* a returned comment carries max_replies replies, another one has none
C7_Witness ==
    /\ cpc = "done" /\ cargs.include_replies
    /\ \E i, j \in 1 .. Len(result) :
          /\ result[i].has_replies
          /\ Len(result[i].replies) = cargs.max_replies
          /\ ~result[j].has_replies

----------------------------------------------------------------------------
\* Properties of the video search loops (checked under SpecSearch)

video_ids(vs) == [ i \in 1 .. Len(vs) |-> vs[i].id ]

\* C8: in each search loop kept <= count and kept + discarded = processed at
\* every iteration boundary; the loop runs only while kept < count; the videos
\* collected and returned are at most count, all passed apply_video_filters,
\* and are in SDK order.
C8_KeptAtMostCount ==
    /\ kept <= sargs.count
    /\ kept + discarded = processed
    /\ Len(videos) = kept
    /\ spc = "loop" => kept < sargs.count
    /\ Len(sresult) <= sargs.count
    /\ \A i \in 1 .. Len(videos) :
          /\ apply_video_filters(videos[i], sargs)
          /\ videos[i].id \in 1 .. processed
    /\ increasing(video_ids(videos))
    /\ \A i \in 1 .. Len(sresult) : sresult[i] = videos[i]

\* a search stopped by kept = count, after discarding videos, before the guard
C8_Witness ==
    /\ spc = "done" /\ ~sraised
    /\ kept = sargs.count /\ kept >= 2
    /\ discarded > 0
    /\ processed < sargs.count * 5
    /\ sresult = videos

\* C9 as claimed: each search loop stops after processing at most 5 * count
\* videos and returns the videos kept so far.
C9_GuardReturnsKept ==
    /\ processed <= sargs.count * 5
    /\ spc = "loop" => processed < sargs.count * 5
    /\ spc = "done" => sresult = videos

\* C9 amended: each search loop stops after processing at most 5 * count
\* videos, whatever the SDK stream yields; it returns the videos kept so far
\* when the SDK iterator ends or a break is taken, and the empty list when the
\* SDK iterator raises.
C9_GuardReturnsKeptUnlessRaise ==
    /\ processed <= sargs.count * 5
    /\ spc = "loop" => processed < sargs.count * 5
    /\ spc = "done" => sresult = (IF sraised THEN <<>> ELSE videos)

\* the guard stopped a search that had kept a video but fewer than count
C9_Witness ==
    /\ spc = "done" /\ ~sraised
    /\ processed = sargs.count * 5
    /\ kept > 0 /\ kept < sargs.count
    /\ sresult = videos

----------------------------------------------------------------------------
\* Properties of the command line (checked under SpecCli)

\* C10: with --auto no run of argument validation or of a main() function
\* reaches an input() prompt.
C10_AutoNeverPrompts == cli.auto => prompts = {}

\* an --auto run that met the conditions of the S3, PAGINATED and MS-token
\* prompts and went through to the end
C10_Witness ==
    /\ cli.scraper = "tiktok" /\ cli.auto
    /\ lpc = "finished"
    /\ cli.s3_uri = "ok" /\ ~cli.aws_creds
    /\ cli.pagination_mode = "paginated"
    /\ ~cli.ms_token
    /\ prompts = {}

----------------------------------------------------------------------------
\* Properties of --dry-run (checked under SpecCli)

\* what argument validation itself does: os.makedirs of the output directory
\* and the lookup of the AWS variables when --s3-uri is given
ValidationEffects == { "makedirs", "aws_env_checked" }

\* positions of main() after the dry-run check
AfterDryRun ==
    { "get_ms_token", "search_mode", "create_session", "tiktok_search",
      "tiktok_save", "check_credentials", "validate_dates", "create_client",
      "twitter_hashtag", "twitter_search", "twitter_save", "finished", "exit1" }

\* C11: with --dry-run, a run whose arguments passed validation returns at
\* the dry-run check: it never reaches a later position of main(), and it
\* has checked no token or credentials, created no session or client, issued
\* no search request and written no data file.
C11_DryRunNoEffects ==
    cli.dry_run =>
        /\ lpc \notin AfterDryRun
        /\ effects \subseteq ValidationEffects

\* a dry run whose arguments passed validation and that returned
C11_Witness ==
    /\ cli.dry_run
    /\ lpc = "returned"
    /\ "makedirs" \in effects

----------------------------------------------------------------------------
\* Properties of the output format (checked under SpecCli)

\* C12: a TikTok run with --output-format parquet that wrote its output file
\* wrote a Parquet file.
C12_ParquetWritten ==
    ( /\ cli.scraper = "tiktok"
      /\ cli.output_format = "parquet"
      /\ "file_written" \in effects )
    => "parquet_written" \in effects

----------------------------------------------------------------------------
\* Properties of the relevance score (checked under SpecRelevance)

\* the hashtags of the call that satisfy P(search term, hashtag), both
\* lower-cased and stripped
HashtagsWhere(P(_, _)) ==
    Cardinality({ i \in 1 .. Len(rargs.hashtags) :
                    P(strip(lower(rargs.search_term)), strip(lower(rargs.hashtags[i]))) })

IsExact(t, h) == t = h
IsContaining(t, h) == t # h /\ str_in(t, h)
IsContained(t, h) == t # h /\ ~str_in(t, h) /\ str_in(h, t)

\* (2*exact + 1.5*containing + 0.5*contained) / (2 * number of hashtags),
\* capped at 1, as a fraction; 0 without search term or without hashtags
StatedHashtagScore ==
    IF rargs.search_term = <<>> \/ rargs.hashtags = <<>> THEN [ n |-> 0, d |-> 1 ]
    ELSE LET points == 4 * HashtagsWhere(IsExact) + 3 * HashtagsWhere(IsContaining)
                       + HashtagsWhere(IsContained)
             most == 4 * Len(rargs.hashtags)
         IN  [ n |-> Min(points, most), d |-> most ]

\* 0.6 * hashtag_score + 0.4 * description_score, as a fraction
StatedRelevance ==
    LET h == StatedHashtagScore
        ds == calculate_description_relevance(rargs.search_term, rargs.description)
    IN  [ n |-> 6 * h.n * ds.d + 4 * ds.n * h.d, d |-> 10 * h.d * ds.d ]

\* x thousandths is the fraction q rounded to 3 decimals
Rounds(x, q) ==
    /\ 2 * (x * q.d - 1000 * q.n) <= q.d
    /\ 2 * (1000 * q.n - x * q.d) <= q.d

\* the search term is empty, or the video has neither hashtags nor description
NothingToScore ==
    \/ rargs.search_term = <<>>
    \/ (rargs.hashtags = <<>> /\ rargs.description = <<>>)

\* the returned scores follow the stated formulas and lie in [0, 1]
ScoresAsStated ==
    /\ Rounds(rresult.hashtag_score, StatedHashtagScore)
    /\ Rounds(rresult.relevance_score, StatedRelevance)
    /\ rresult.hashtag_score \in 0 .. 1000
    /\ rresult.description_score \in 0 .. 1000
    /\ rresult.relevance_score \in 0 .. 1000

\* C13 (as stated): the returned relevance_score is 0.6 * hashtag_score +
\* 0.4 * description_score with hashtag_score = (2*exact + 1.5*containing +
\* 0.5*contained) / (2 * number of hashtags) capped at 1, all scores lie in
\* [0, 1], and the score is 0 with is_relevant false when the search term is
\* empty or the video has neither hashtags nor description.
C13_RelevanceFormula ==
    rpc = "done" =>
        /\ ScoresAsStated
        /\ NothingToScore =>
               rresult.relevance_score = 0 /\ ~rresult.is_relevant

\* C13 (amended): as above, but with nothing to score is_relevant is
\* `0.0 >= relevance_threshold`: false for a positive threshold, true for
\* the threshold 0.0.
C13_RelevanceFormulaByThreshold ==
    rpc = "done" =>
        /\ ScoresAsStated
        /\ NothingToScore =>
               /\ rresult.relevance_score = 0
               /\ rresult.is_relevant <=> rargs.relevance_threshold = 0

\* a call with hashtags and description that scored strictly between 0 and 1
\* on both, differently
C13_Witness ==
    /\ rpc = "done"
    /\ rresult.hashtag_score \in 1 .. 999
    /\ rresult.description_score \in 1 .. 999
    /\ rresult.hashtag_score # rresult.description_score
    /\ rresult.relevance_score \in 1 .. 999

----------------------------------------------------------------------------
\* Properties of the saved files (checked under SpecSave)

\* the calls of the log that used the prefix of call i, after call i
LaterSamePrefix(i) ==
    { j \in (i + 1) .. Len(saves) : saves[j].prefix = saves[i].prefix }

\* call j is the next successful save after call i with the same prefix
NextSamePrefix(i, j) ==
    /\ j \in LaterSamePrefix(i)
    /\ \A m \in LaterSamePrefix(i) : j <= m

\* call i wrote a new file, numbered with the smallest number not in use,
\* that still holds one line per video of the call
SavedAsNew(i) ==
    /\ ~saves[i].existed
    /\ saves[i].file_number >= 1
    /\ saves[i].file_number \notin saves[i].in_use
    /\ \A k \in 1 .. (saves[i].file_number - 1) : k \in saves[i].in_use
    /\ dir[<<saves[i].prefix, saves[i].file_number>>] =
           [ kind |-> "saved", lines |-> saves[i].videos ]

AllSavedAsNew ==
    /\ \A i \in 1 .. Len(saves) : SavedAsNew(i)
    /\ \A i \in 1 .. Len(saves) : \A j \in LaterSamePrefix(i) :
           saves[j].file_number # saves[i].file_number

NoGaps(prefix) ==
    LET old == { k \in 1 .. MaxFileNo : dir[<<prefix, k>>].kind = "old" }
    IN  /\ \A k \in old : \A m \in 1 .. k : m \in old
        /\ \A k \in 1 .. MaxFileNo : dir[<<prefix, k>>].kind # "partial"

====
